---- MODULE Spec2Model ----
(***************************************************************************)
(* Model of epoch-converter (src/src/main.rs): the epoch-unit              *)
(* disambiguation in main, the datetime parser parse_datetime and the      *)
(* printer display_results.                                                *)
(*                                                                         *)
(* Numbers.  The program computes on i64 and u32.  TLC's integers are 32   *)
(* bits wide, so every program integer is kept as a sign and a magnitude   *)
(* in base 1000, least significant limb first:                             *)
(*     [neg |-> BOOLEAN, mag |-> Seq(0..999)],  no high zero limb, 0 >= 0. *)
(* The arithmetic below is exact; the i64 width is applied where the       *)
(* program applies it (I64Mul, I64Add, AsU32).                             *)
(*                                                                         *)
(* Library behaviour the model relies on (chrono, regex, failure):         *)
(*   - an i64 `*` or `+` that overflows panics in a build with overflow    *)
(*     checks (debug) and wraps modulo 2^64 without them (release);        *)
(*   - `/` and `%` truncate toward zero, `%` takes the dividend's sign;    *)
(*   - `x as u32` keeps x modulo 2^32;                                     *)
(*   - Utc.timestamp(secs, nsecs) panics when secs is outside the range    *)
(*     DateTime<Utc> can hold or nsecs >= 2_000_000_000;                   *)
(*   - Result::or evaluates its argument before it is called;              *)
(*   - the four chrono parsers are not modelled: each one's verdict on a   *)
(*     string is an arbitrary choice between an error and an Instant.      *)
(* Lines 3 and 4 of the output (RFC 2822 texts) are not modelled.          *)
(***************************************************************************)
EXTENDS Integers, Sequences, FiniteSets, TLC

----------------------------------------------------------------------------
(* Exact integers *)

RECURSIVE Strip(_)
Strip(m) ==
    IF m = <<>> THEN <<>>
    ELSE IF m[Len(m)] = 0 THEN Strip(SubSeq(m, 1, Len(m) - 1))
    ELSE m

Norm(neg, m) ==
    LET s == Strip(m) IN [neg |-> neg /\ s # <<>>, mag |-> s]

RECURSIVE MagFromNat(_)
MagFromNat(n) ==
    IF n = 0 THEN <<>> ELSE <<n % 1000>> \o MagFromNat(n \div 1000)

\* The program integer with value n, for a literal n that fits TLC's integers.
I(n) == IF n < 0 THEN Norm(TRUE, MagFromNat(0 - n)) ELSE Norm(FALSE, MagFromNat(n))

\* -1, 0, 1 as a < b, a = b, a > b, for magnitudes without high zero limbs.
RECURSIVE MagCmpFrom(_, _, _)
MagCmpFrom(a, b, i) ==
    IF i = 0 THEN 0
    ELSE IF a[i] < b[i] THEN -1
    ELSE IF a[i] > b[i] THEN 1
    ELSE MagCmpFrom(a, b, i - 1)

MagCmp(a, b) ==
    IF Len(a) < Len(b) THEN -1
    ELSE IF Len(a) > Len(b) THEN 1
    ELSE MagCmpFrom(a, b, Len(a))

Limb(m, i) == IF i <= Len(m) THEN m[i] ELSE 0

RECURSIVE MagAddFrom(_, _, _, _)
MagAddFrom(a, b, i, carry) ==
    IF i > Len(a) /\ i > Len(b)
    THEN (IF carry = 0 THEN <<>> ELSE <<carry>>)
    ELSE LET s == Limb(a, i) + Limb(b, i) + carry
         IN <<s % 1000>> \o MagAddFrom(a, b, i + 1, s \div 1000)

MagAdd(a, b) == MagAddFrom(a, b, 1, 0)

\* a - b for a >= b.
RECURSIVE MagSubFrom(_, _, _, _)
MagSubFrom(a, b, i, borrow) ==
    IF i > Len(a) THEN <<>>
    ELSE LET d == Limb(a, i) - Limb(b, i) - borrow
         IN IF d < 0 THEN <<d + 1000>> \o MagSubFrom(a, b, i + 1, 1)
            ELSE <<d>> \o MagSubFrom(a, b, i + 1, 0)

MagSub(a, b) == Strip(MagSubFrom(a, b, 1, 0))

\* a * k for one limb k.
RECURSIVE MagMulLimbFrom(_, _, _, _)
MagMulLimbFrom(a, k, i, carry) ==
    IF i > Len(a)
    THEN (IF carry = 0 THEN <<>> ELSE <<carry>>)
    ELSE LET p == a[i] * k + carry
         IN <<p % 1000>> \o MagMulLimbFrom(a, k, i + 1, p \div 1000)

RECURSIVE MagMul(_, _)
MagMul(a, b) ==
    IF b = <<>> \/ a = <<>> THEN <<>>
    ELSE MagAdd(Strip(MagMulLimbFrom(a, Head(b), 1, 0)),
                Strip(<<0>> \o MagMul(a, Tail(b))))

Neg(x) == Norm(~x.neg, x.mag)

Add(x, y) ==
    IF x.neg = y.neg THEN Norm(x.neg, MagAdd(x.mag, y.mag))
    ELSE IF MagCmp(x.mag, y.mag) >= 0 THEN Norm(x.neg, MagSub(x.mag, y.mag))
    ELSE Norm(y.neg, MagSub(y.mag, x.mag))

Sub(x, y) == Add(x, Neg(y))

Mul(x, y) == Norm(x.neg # y.neg, MagMul(x.mag, y.mag))

Cmp(x, y) ==
    IF x.neg /\ ~y.neg THEN -1
    ELSE IF ~x.neg /\ y.neg THEN 1
    ELSE IF x.neg THEN MagCmp(y.mag, x.mag)
    ELSE MagCmp(x.mag, y.mag)

LE(x, y) == Cmp(x, y) <= 0
LT(x, y) == Cmp(x, y) < 0
GT(x, y) == Cmp(x, y) > 0
GE(x, y) == Cmp(x, y) >= 0

RECURSIVE Pow(_, _)
Pow(b, e) == IF e = 0 THEN I(1) ELSE Mul(b, Pow(b, e - 1))

\* d = 1000^k: the number of limbs a division by d drops (-1 for any other d).
RECURSIVE ZeroLimbs(_)
ZeroLimbs(m) ==
    IF m = <<>> THEN -1
    ELSE IF m = <<1>> THEN 0
    ELSE IF Head(m) # 0 THEN -1
    ELSE LET k == ZeroLimbs(Tail(m)) IN IF k < 0 THEN -1 ELSE k + 1

\* Rust's `/` and `%` on integers, for a divisor that is a positive power of
\* 1000 (every divisor of the program is): the quotient truncates toward zero
\* and the remainder has the dividend's sign.
Quot(x, d) ==
    LET k == ZeroLimbs(d.mag)
    IN IF k >= Len(x.mag) THEN I(0)
       ELSE Norm(x.neg, SubSeq(x.mag, k + 1, Len(x.mag)))

Rem(x, d) ==
    LET k == ZeroLimbs(d.mag)
    IN IF k >= Len(x.mag) THEN x
       ELSE Norm(x.neg, SubSeq(x.mag, 1, k))

\* a mod m on magnitudes, by long division: below 10 m first, then at most
\* nine subtractions of m.
RECURSIVE MagSubWhile(_, _)
MagSubWhile(a, m) ==
    IF MagCmp(a, m) < 0 THEN a ELSE MagSubWhile(MagSub(a, m), m)

RECURSIVE MagMod(_, _)
MagMod(a, m) ==
    IF MagCmp(a, m) < 0 THEN a
    ELSE MagSubWhile(MagMod(a, Strip(MagMulLimbFrom(m, 10, 1, 0))), m)

\* x modulo m, in 0 .. m-1.
Mod(x, m) ==
    LET r == MagMod(x.mag, m.mag)
    IN IF x.neg /\ r # <<>> THEN Norm(FALSE, MagSub(m.mag, r)) ELSE Norm(FALSE, r)

\* 2^32 = 4_294_967_296, 2^63 = 9_223_372_036_854_775_808 and
\* 2^64 = 18_446_744_073_709_551_616, in limbs.
TwoPow32 == [neg |-> FALSE, mag |-> <<296, 967, 294, 4>>]
TwoPow63 == [neg |-> FALSE, mag |-> <<808, 775, 854, 36, 372, 223, 9>>]
TwoPow64 == [neg |-> FALSE, mag |-> <<616, 551, 709, 73, 744, 446, 18>>]

\* i64::MAX and i64::MIN.
I64Max == [neg |-> FALSE, mag |-> <<807, 775, 854, 36, 372, 223, 9>>]
I64Min == [neg |-> TRUE, mag |-> <<808, 775, 854, 36, 372, 223, 9>>]
InI64(x) == LE(I64Min, x) /\ LE(x, I64Max)

\* The i64 that equals x modulo 2^64.
WrapI64(x) ==
    LET r == Mod(x, TwoPow64)
    IN IF GE(r, TwoPow63) THEN Sub(r, TwoPow64) ELSE r

\* `x as u32` for an i64 x.
AsU32(x) == Mod(x, TwoPow32)

----------------------------------------------------------------------------
(* Bounds of the inputs *)

\* Raw epochs are m * 10^e + d for |m| <= MaxMant, e <= MaxExp, |d| <= MaxDelta.
MaxMant == 2
MaxExp == 18
MaxDelta == 1
\* Clock readings are m * 10^e + d for |m| <= MaxNowMant, e <= MaxExp,
\* 0 <= d <= MaxNowDelta.
MaxNowMant == 2
MaxNowDelta == 1

Scaled(m, e) == Mul(I(m), Pow(I(10), e))

----------------------------------------------------------------------------
(* chrono: the Instants a DateTime<Utc> can hold *)

\* 262143-12-31T23:59:59Z and -262144-01-01T00:00:00Z as epoch seconds.
\* 8_210_298_412_799 and -8_334_632_851_200.
ChronoMaxSecs == [neg |-> FALSE, mag |-> <<799, 412, 298, 210, 8>>]
ChronoMinSecs == [neg |-> TRUE, mag |-> <<200, 851, 632, 334, 8>>]
InChronoRange(secs) == LE(ChronoMinSecs, secs) /\ LE(secs, ChronoMaxSecs)

Instant(secs, nanos) == [secs |-> secs, nanos |-> nanos]

\* A value or a panic: what an expression that may panic evaluates to.
Ok(v) == [ok |-> TRUE, v |-> v]
Panicked == [ok |-> FALSE, v |-> I(0)]

\* 2_000_000_000: the nanoseconds chrono refuses.
TwoBillion == [neg |-> FALSE, mag |-> <<0, 0, 0, 2>>]

\* Utc.timestamp(secs, nsecs), line 113.
UtcTimestamp(secs, nsecs) ==
    IF InChronoRange(secs) /\ LT(nsecs, TwoBillion)
    THEN Ok(Instant(secs, nsecs))
    ELSE Panicked

----------------------------------------------------------------------------
(* i64 arithmetic of a build *)

Builds == {"debug", "release"}

I64Checked(b, p) ==
    IF InI64(p) THEN Ok(p)
    ELSE IF b = "debug" THEN Panicked
    ELSE Ok(WrapI64(p))

\* `x * y` and `x + y` on i64 in build b; x and y are values or panics.
I64Mul(b, x, y) ==
    IF ~x.ok \/ ~y.ok THEN Panicked ELSE I64Checked(b, Mul(x.v, y.v))

I64Add(b, x, y) ==
    IF ~x.ok \/ ~y.ok THEN Panicked ELSE I64Checked(b, Add(x.v, y.v))

----------------------------------------------------------------------------
(* main, lines 88-111: the unit disambiguation *)

\* 10, 10^3, 10^6 and 10^9.
threshold == [neg |-> FALSE, mag |-> <<10>>]
milli_multiplier == [neg |-> FALSE, mag |-> <<0, 1>>]
micro_multiplier == [neg |-> FALSE, mag |-> <<0, 0, 1>>]
nano_multiplier == [neg |-> FALSE, mag |-> <<0, 0, 0, 1>>]

NoticeSeconds == "Assuming that timestamp is in seconds."
NoticeMillis == "Assuming that timestamp is in milliseconds."
NoticeMicros == "Assuming that timestamp is in microseconds."
NoticeNanos == "Assuming that timestamp is in nanoseconds."

\* The locals as lines 88-89 set them, before any branch.  nano_i64 is the
\* i64 that `as u32` is applied to (lines 102, 106, 110), panic whether an
\* arithmetic overflow has ended the program.
Locals0 ==
    [panic |-> FALSE, branch |-> "none", seconds |-> I(0), nano_i64 |-> I(0),
     nano_seconds |-> I(0), notices |-> <<>>]

LocalsPanic == [Locals0 EXCEPT !.panic = TRUE]

\* The comparison with < in place of <=.
SecondsCond_Strict(input, t1) == LT(input, t1)

\* Line 96, t1 = ts * threshold.
SecondsCond(input, t1) == LE(input, t1)

BranchSeconds(input) ==
    [Locals0 EXCEPT !.branch = "seconds", !.seconds = input,
                    !.notices = <<NoticeSeconds>>]

\* The seconds without the division.
ScaledSeconds_Undivided(input, mult) == input

\* Lines 101 and 105: seconds = input / mult.
ScaledSeconds(input, mult) == Quot(input, mult)

\* The remainder without its scale, and the remainder taken by the scale.
NanoProduct_Unscaled(b, scale, input, mult) == Ok(Rem(input, mult))

NanoProduct_WrongModulus(b, scale, input, mult) ==
    I64Mul(b, Ok(scale), Ok(Rem(input, scale)))

\* Lines 102 and 106, the i64 under the cast: scale * (input % mult).
NanoProduct(b, scale, input, mult) ==
    I64Mul(b, Ok(scale), Ok(Rem(input, mult)))

\* Lines 100-102 and 104-106, n the product under the cast.
BranchScaledWith(input, name, notice, mult, n) ==
    IF ~n.ok THEN LocalsPanic
    ELSE [Locals0 EXCEPT !.branch = name,
                         !.seconds = ScaledSeconds(input, mult),
                         !.nano_i64 = n.v,
                         !.nano_seconds = AsU32(n.v),
                         !.notices = <<notice>>]

BranchScaled(b, input, name, notice, mult, scale) ==
    BranchScaledWith(input, name, notice, mult,
                     NanoProduct(b, scale, input, mult))

\* Lines 108-110.
BranchNanos(ts) ==
    [Locals0 EXCEPT !.branch = "nanoseconds",
                    !.seconds = Quot(ts, nano_multiplier),
                    !.nano_i64 = Rem(ts, nano_multiplier),
                    !.nano_seconds = AsU32(Rem(ts, nano_multiplier)),
                    !.notices = <<NoticeNanos>>]

\* Lines 96-111, given the three products t1 = ts * threshold,
\* t2 = ts * milli_multiplier * threshold and t3 = ts * micro_multiplier *
\* threshold, each a value or a panic.  A product is read in the order the
\* conditions read it, `&&` skipping its right operand when the left is false.
Branches(b, input, ts, t1, t2, t3) ==
    IF ~t1.ok THEN LocalsPanic
    ELSE IF SecondsCond(input, t1.v) THEN BranchSeconds(input)
    ELSE IF GT(input, t1.v) /\ ~t2.ok THEN LocalsPanic
    ELSE IF GT(input, t1.v) /\ LE(input, t2.v)
         THEN BranchScaled(b, input, "milliseconds", NoticeMillis,
                           milli_multiplier, micro_multiplier)
    ELSE IF ~t2.ok THEN LocalsPanic
    ELSE IF GT(input, t2.v) /\ ~t3.ok THEN LocalsPanic
    ELSE IF GT(input, t2.v) /\ LE(input, t3.v)
         THEN BranchScaled(b, input, "microseconds", NoticeMicros,
                           micro_multiplier, milli_multiplier)
    ELSE IF ~t3.ok THEN LocalsPanic
    ELSE IF GT(input, t3.v) THEN BranchNanos(ts)
    ELSE Locals0

\* Lines 96-111 in build b.
Disambiguate(b, input, ts) ==
    Branches(b, input, ts,
             I64Mul(b, Ok(ts), Ok(threshold)),
             I64Mul(b, I64Mul(b, Ok(ts), Ok(milli_multiplier)), Ok(threshold)),
             I64Mul(b, I64Mul(b, Ok(ts), Ok(micro_multiplier)), Ok(threshold)))

----------------------------------------------------------------------------
(* display_results, lines 67-68 *)

\* datetime.timestamp()
Timestamp(dt) == dt.secs

\* datetime.timestamp_subsec_millis()
TimestampSubsecMillis(dt) == Quot(dt.nanos, micro_multiplier)

\* Line 68 without the sub-second term, and with microseconds for it.
MillisLine_NoSubsec(b, dt) ==
    I64Mul(b, Ok(Timestamp(dt)), Ok(milli_multiplier))

MillisLine_SubsecMicros(b, dt) ==
    I64Add(b, I64Mul(b, Ok(Timestamp(dt)), Ok(milli_multiplier)),
              Ok(Quot(dt.nanos, milli_multiplier)))

\* The number line 68 prints, in build b.
MillisLine(b, dt) ==
    I64Add(b, I64Mul(b, Ok(Timestamp(dt)), Ok(milli_multiplier)),
              Ok(TimestampSubsecMillis(dt)))

----------------------------------------------------------------------------
(* parse_datetime, lines 46-64 *)

\* Strings are sequences of these characters, at most MaxLen long.
MaxLen == 4
Alphabet == {" ", "G", "M", "T", "+", "0", "x"}

IsWhitespace(c) == c = " "
IsDigit(c) == c \in {"0", "1", "2", "3", "4", "5", "6", "7", "8", "9"}

RECURSIVE TrimStart(_)
TrimStart(s) ==
    IF s # <<>> /\ IsWhitespace(Head(s)) THEN TrimStart(Tail(s)) ELSE s

RECURSIVE TrimEnd(_)
TrimEnd(s) ==
    IF s # <<>> /\ IsWhitespace(s[Len(s)])
    THEN TrimEnd(SubSeq(s, 1, Len(s) - 1))
    ELSE s

\* str::trim
Trim(s) == TrimEnd(TrimStart(s))

\* str::replace: every occurrence of pat, left to right, replaced by rep.
RECURSIVE Replace(_, _, _)
Replace(s, pat, rep) ==
    IF Len(s) < Len(pat) THEN s
    ELSE IF SubSeq(s, 1, Len(pat)) = pat
    THEN rep \o Replace(SubSeq(s, Len(pat) + 1, Len(s)), pat, rep)
    ELSE <<Head(s)>> \o Replace(Tail(s), pat, rep)

\* Line 47.
ProcessedStr(s) == Replace(Trim(s), <<"G", "M", "T">>, <<"+", "0", "0", "0", "0">>)

\* Line 48, the number of digits the pattern asks for.
ZoneDigits == 4

\* The pattern without its $: four digits anywhere.
RegexIsMatch_NoEndAnchor(s) ==
    \E j \in 1..(Len(s) + 1) :
        /\ j + ZoneDigits - 1 <= Len(s)
        /\ \A k \in j..(j + ZoneDigits - 1) : IsDigit(s[k])

\* Regex::is_match for `.*+\d{4}$`, lines 48 and 50: from some start i, a run
\* s[i..j-1] of characters other than a line feed (`.*`, one or more times,
\* each time possibly empty), then ZoneDigits digits, then the end of the text.
RegexIsMatch(s) ==
    \E i \in 1..(Len(s) + 1) : \E j \in i..(Len(s) + 1) :
        /\ \A k \in i..(j - 1) : s[k] # "\n"
        /\ j + ZoneDigits - 1 = Len(s)
        /\ \A k \in j..(j + ZoneDigits - 1) : IsDigit(s[k])

\* An error of parse_datetime: the failure and the context laid over it.
Failed(fail, prefix, arg, suffix) ==
    [ok |-> FALSE, fail |-> fail,
     context |-> [prefix |-> prefix, arg |-> arg, suffix |-> suffix]]

\* Line 51.
ZoneError(processed_str) ==
    Failed("MissingZone", "Could not parse input ", processed_str,
           ". Provide valid timezone or GMT as suffix.")

\* Line 62, over the failure line 57 puts in place of the parsers' errors.
FormatError(processed_str) ==
    Failed("MissingZone", "could not parse input: ", processed_str, "")

\* The parsers of lines 53-56, in the order the chain names them.
Formats == <<"rfc2822", "%d-%m-%Y %T %z", "%m/%d/%Y %T %z", "%Y/%m/%d %T %z">>

\* What one chrono parser may answer: an error or a DateTime.
ParsedInstants == {Instant(I(0), I(0)), Instant(I(2678400), I(0))}
ParseAnswers == {[ok |-> FALSE]} \cup {[ok |-> TRUE, v |-> dt] : dt \in ParsedInstants}

\* Result::or
Or(a, b) == IF a.ok THEN a ELSE b

\* Lines 53-62: the chain over the four parsers' answers r.
Chain(r, processed_str) ==
    Or(r[1], Or(r[2], Or(r[3], Or(r[4], FormatError(processed_str)))))

\* Lines 46-64, given the parsers' answers: the result and the formats tried.
ParseDatetimeWith(processed_str, r) ==
    IF ~RegexIsMatch(processed_str)
    THEN [result |-> ZoneError(processed_str), processed_str |-> processed_str,
          attempted |-> <<>>]
    ELSE [result |-> Chain(r, processed_str), processed_str |-> processed_str,
          attempted |-> Formats]

----------------------------------------------------------------------------
(* State *)

VARIABLES
    build,        \* whether i64 overflow panics ("debug") or wraps ("release")
    mode,         \* the argument given: "epoch", "datetime" or "none"
    epoch,        \* args.epoch: <<>> or <<i64>>
    now,          \* Utc::now(), an Instant
    pc,           \* "args", "main", "display", "done", "panic", "error"
    locals,       \* branch taken, seconds, nano_seconds, notices printed
    datetime,     \* the Instant handed to display_results: <<>> or <<Instant>>
    lines,        \* the numbers of output lines 1 and 2: <<>> or <<line1, line2>>
    run,          \* 1, or 2 when line 1 of run 1 is fed back as the epoch
    first,        \* run 1's epoch, Instant and branch, kept for run 2, or <<>>
    src,          \* the --datetime argument
    parsed        \* what parse_datetime returned and tried: <<>> or <<record>>

vars == <<build, mode, epoch, now, pc, locals, datetime, lines, run, first,
          src, parsed>>

RawInputs ==
    { v \in { Add(Scaled(m, e), I(d)) :
                m \in (0 - MaxMant)..MaxMant, e \in 0..MaxExp,
                d \in (0 - MaxDelta)..MaxDelta } : InI64(v) }
    \cup {I64Min, I64Max}

NowSeconds ==
    { v \in { Add(Scaled(m, e), I(d)) :
                m \in (0 - MaxNowMant)..MaxNowMant, e \in 0..MaxExp,
                d \in 0..MaxNowDelta } : InChronoRange(v) }

NowNanos == {I(0), I(999999), I(123456789), I(999999999)}

InitEpoch ==
    /\ mode = "epoch"
    /\ epoch \in { <<v>> : v \in RawInputs }
    /\ now \in { Instant(s, I(0)) : s \in NowSeconds }

InitNone ==
    /\ mode = "none"
    /\ epoch = <<>>
    /\ now \in { Instant(s, n) : s \in NowSeconds, n \in NowNanos }

InitRest ==
    /\ build \in Builds
    /\ locals = Locals0
    /\ datetime = <<>>
    /\ lines = <<>>
    /\ run = 1
    /\ first = <<>>
    /\ parsed = <<>>

\* After Cli::from_args has read an epoch or nothing.
Init ==
    /\ (InitEpoch \/ InitNone)
    /\ src = <<>>
    /\ pc = "main"
    /\ InitRest

RECURSIVE Strings(_)
Strings(n) ==
    IF n = 0 THEN {<<>>}
    ELSE LET shorter == Strings(n - 1)
         IN shorter \cup { <<c>> \o t : c \in Alphabet, t \in { u \in shorter : Len(u) = n - 1 } }

\* As Cli::from_args is about to parse a --datetime argument.
InitDatetime ==
    /\ mode = "datetime"
    /\ epoch = <<>>
    /\ now = Instant(I(0), I(0))
    /\ src \in Strings(MaxLen)
    /\ pc = "args"
    /\ InitRest

\* Line 113 and what follows it: the locals r of lines 88-111 are kept, and
\* dt = Utc.timestamp(seconds, nano_seconds) is the Instant or a panic.
Constructed(r, dt) ==
    /\ locals' = r
    /\ IF r.panic \/ ~dt.ok
       THEN pc' = "panic" /\ datetime' = <<>>
       ELSE pc' = "display" /\ datetime' = <<dt.v>>

Converted(r) == Constructed(r, UtcTimestamp(r.seconds, r.nano_seconds))

\* main, lines 81-113, with an epoch argument.
ConvertEpoch ==
    /\ pc = "main"
    /\ mode = "epoch"
    /\ Converted(Disambiguate(build, epoch[1], Timestamp(now)))
    /\ UNCHANGED <<build, mode, epoch, now, lines, run, first, src, parsed>>

\* main, lines 81 and 115, with no argument.
UseNow ==
    /\ pc = "main"
    /\ mode = "none"
    /\ datetime' = <<now>>
    /\ pc' = "display"
    /\ UNCHANGED <<build, mode, epoch, now, locals, lines, run, first, src, parsed>>

\* Lines 67-68 print the two numbers; ms is the second or a panic.
Printed(dt, ms) ==
    IF ms.ok
    THEN lines' = <<Timestamp(dt), ms.v>> /\ pc' = "done"
    ELSE lines' = <<Timestamp(dt)>> /\ pc' = "panic"

\* display_results, lines 67-68.
DisplayResults ==
    /\ pc = "display"
    /\ Printed(datetime[1], MillisLine(build, datetime[1]))
    /\ UNCHANGED <<build, mode, epoch, now, locals, datetime, run, first, src,
                   parsed>>

\* The program is run again on the epoch-seconds line it printed, the clock
\* reading the same second.
FeedBack ==
    /\ pc = "done"
    /\ mode = "epoch"
    /\ run = 1
    /\ first' = <<epoch[1], datetime[1], locals.branch>>
    /\ epoch' = <<lines[1]>>
    /\ run' = 2
    /\ pc' = "main"
    /\ locals' = Locals0
    /\ datetime' = <<>>
    /\ lines' = <<>>
    /\ UNCHANGED <<build, mode, now, src, parsed>>

\* What Cli::from_args and line 78 do with parse_datetime's return p: an Ok
\* is handed to display_results, an Err ends the program with its message.
Parsed(p) ==
    /\ parsed' = <<p>>
    /\ IF p.result.ok
       THEN pc' = "display" /\ datetime' = <<p.result.v>>
       ELSE pc' = "error" /\ datetime' = <<>>

\* Cli::from_args calling parse_datetime on the --datetime argument.
ParseDatetime ==
    /\ pc = "args"
    /\ mode = "datetime"
    /\ \E r \in [1..4 -> ParseAnswers] : Parsed(ParseDatetimeWith(ProcessedStr(src), r))
    /\ UNCHANGED <<build, mode, epoch, now, locals, lines, run, first, src>>

Next == ConvertEpoch \/ UseNow \/ DisplayResults \/ FeedBack

Spec == Init /\ [][Next]_vars

NextDatetime == ParseDatetime \/ DisplayResults

SpecDatetime == InitDatetime /\ [][NextDatetime]_vars

----------------------------------------------------------------------------
(* Properties *)

\* The epoch argument of the run, the clock's second, and the exact products
\* now * 10, now * 10^4 and now * 10^7.
Raw == epoch[1]
Ts == now.secs
T1 == Mul(Ts, threshold)
T2 == Mul(Mul(Ts, milli_multiplier), threshold)
T3 == Mul(Mul(Ts, micro_multiplier), threshold)

\* Lines 88-113 have run on an epoch argument.
Ran == mode = "epoch" /\ pc \in {"display", "done", "panic"}

MaxNanos == I(999999999)

C2_MillisBand ==
    (Ran /\ InI64(T1) /\ InI64(T2) /\ GT(Raw, T1) /\ LE(Raw, T2)) =>
        /\ ~locals.panic
        /\ locals.branch = "milliseconds"
        /\ locals.seconds = Quot(Raw, I(1000))
        /\ locals.nano_seconds = Mul(I(1000000), Rem(Raw, I(1000)))
        /\ locals.notices = <<NoticeMillis>>
        /\ (datetime # <<>> =>
                datetime[1] = Instant(Quot(Raw, I(1000)),
                                      Mul(I(1000000), Rem(Raw, I(1000)))))

\* A milliseconds epoch with a sub-second part, converted and printed.
C2_Witness ==
    Ran /\ pc = "done" /\ run = 1 /\ GT(Raw, T1) /\ LE(Raw, T2)
        /\ Rem(Raw, I(1000)) # I(0) /\ locals.branch = "milliseconds"

\* C3: whatever the epoch and the clock, the disambiguation ends without an
\* error: one of the four branches is taken, one notice is printed and an
\* Instant is built.
C3_NoErrorOutcome ==
    Ran =>
        /\ ~locals.panic
        /\ locals.branch \in {"seconds", "milliseconds", "microseconds", "nanoseconds"}
        /\ Len(locals.notices) = 1
        /\ datetime # <<>>

\* C6: for an Instant with nanoseconds in 0 .. 999_999_999, line 1 is its
\* seconds and line 2 is line 1 * 1000 + nanoseconds / 1_000_000.
C6_MillisLine ==
    (lines # <<>> /\ LE(I(0), datetime[1].nanos) /\ LE(datetime[1].nanos, MaxNanos)) =>
        /\ Len(lines) = 2
        /\ lines[1] = datetime[1].secs
        /\ lines[2] = Add(Mul(lines[1], I(1000)), Quot(datetime[1].nanos, I(1000000)))

\* An Instant before 1970 with a sub-second part, printed.
C6_Witness ==
    pc = "done" /\ datetime[1].secs.neg /\ GE(datetime[1].nanos, I(1000000))

\* C7 as stated: fed line 1 of its own output under the same clock second, the
\* program takes the seconds branch and builds the same Instant.
C7_SameInstant ==
    (run = 2 /\ Ran) => locals.branch = "seconds" /\ datetime = <<first[2]>>

\* C7 as amended: under a clock at or after 1970 the second run takes the
\* seconds branch and builds the first Instant's seconds with nanoseconds 0,
\* which is the first Instant exactly when that one had no nanoseconds.
C7_SameSecondsNoNanos ==
    (run = 2 /\ Ran /\ ~Ts.neg) =>
        /\ ~locals.panic
        /\ locals.branch = "seconds"
        /\ datetime = <<Instant(first[2].secs, I(0))>>
        /\ (datetime = <<first[2]>> <=> first[2].nanos = I(0))

\* A milliseconds epoch with a sub-second part, its line 1 converted again.
C7_Witness ==
    run = 2 /\ pc = "done" /\ ~Ts.neg /\ first[3] = "milliseconds"
        /\ first[2].nanos # I(0)

\* C8: for an epoch in the milliseconds band, line 2 divided by 1000 is the
\* Instant's seconds, raw / 1000.
C8_MillisRoundTrip ==
    (mode = "epoch" /\ pc = "done" /\ GT(Raw, T1) /\ LE(Raw, T2)) =>
        /\ Quot(lines[2], I(1000)) = Quot(Raw, I(1000))
        /\ Quot(lines[2], I(1000)) = datetime[1].secs

\* A milliseconds epoch with a sub-second part, printed.
C8_Witness ==
    mode = "epoch" /\ pc = "done" /\ run = 1 /\ GT(Raw, T1) /\ LE(Raw, T2)
        /\ Rem(Raw, I(1000)) # I(0) /\ lines[2] = Raw

\* C9: every epoch raw > now * 10^7 (the product within i64) takes the
\* nanoseconds branch with seconds = now / 10^9 and nano_seconds = now % 10^9,
\* in which raw does not occur, and the Instant built from them is that pair.
C9_NanosBand ==
    (Ran /\ InI64(T3) /\ GT(Raw, T3)) =>
        /\ ~locals.panic
        /\ locals.branch = "nanoseconds"
        /\ locals.seconds = Quot(Ts, nano_multiplier)
        /\ locals.nano_seconds = Rem(Ts, nano_multiplier)
        /\ (datetime # <<>> =>
                datetime[1] = Instant(Quot(Ts, nano_multiplier),
                                      Rem(Ts, nano_multiplier)))

\* C10: under a clock at or after 1970 whose products stay within i64, the
\* nanoseconds handed to Utc.timestamp are in 0 .. 999_999_999 before the cast
\* and unchanged by it.
C10_NanosInRange ==
    (Ran /\ ~Ts.neg /\ InI64(T1) /\ InI64(T2) /\ InI64(T3)) =>
        /\ ~locals.panic
        /\ LE(I(0), locals.nano_i64)
        /\ LE(locals.nano_i64, MaxNanos)
        /\ locals.nano_seconds = locals.nano_i64

\* A milliseconds epoch whose low six digits are 1000 or more.
C10_Witness ==
    Ran /\ ~Ts.neg /\ InI64(T3) /\ locals.branch = "milliseconds"
        /\ GE(Rem(Raw, I(1000000)), I(1000)) /\ locals.nano_i64 # I(0)

EndsInFourDigits(s) ==
    Len(s) >= 4 /\ \A k \in (Len(s) - 3)..Len(s) : IsDigit(s[k])

\* parse_datetime has returned.
Returned == mode = "datetime" /\ pc # "args"

C5_UnrecognizedFormat ==
    (Returned /\ pc = "error" /\ EndsInFourDigits(ProcessedStr(src))) =>
        /\ parsed[1].result.fail # ZoneError(ProcessedStr(src)).fail
        /\ parsed[1].result.context.arg = ProcessedStr(src)
====
